---- MODULE Spec2Model ----
(***************************************************************************)
(* Model of convex/lib/memory.ts: the memory store of an agent (embeddings, *)
(* memories, memoryAccesses), the external vector index, and the           *)
(* operations of MemoryDB (addMemories, accessMemories) with the Convex     *)
(* queries and mutations they run.                                         *)
(***************************************************************************)
EXTENDS Integers, Sequences, FiniteSets, TLC

\* ------------------------------------------------------------------ bounds
MaxBatch == 2        \* drafts in one addMemories call
MaxRows == 3         \* rows of the memories table
MaxRawLen == 2       \* characters of a language-model response
MaxTime == 2         \* clock ticks
MaxAccessRows == 3   \* rows of the memoryAccesses table
MaxCount == 2        \* the count argument of accessMemories
MaxMessages == 3     \* rows of the journal table
MaxClock == 9        \* the clock up to which summaries are asked for

\* Line 214 divides the milliseconds by 1000 * 60 * 60: an hour, here in the
\* ticks of the model's clock.
TicksPerHour == 2

Players == {"p1", "p2"}
Texts == {"a", "b"}
RawChars == {"x", " ", "-", ".", "7"}
Calls == {1, 2}       \* slots of addMemories calls in flight

\* An optional value: None is undefined/null, Some(v) a present value.
None == <<>>
Some(v) == <<v>>
IsSome(o) == o # <<>>
Val(o) == o[1]

\* ------------------------------------------------------- JavaScript numbers
\* A number is NaN, or the rational n/d in lowest terms (d > 0).
RECURSIVE Gcd(_, _)
Gcd(a, b) == IF b = 0 THEN a ELSE Gcd(b, a % b)

Abs(x) == IF x < 0 THEN -x ELSE x

NaN == [nan |-> TRUE, n |-> 0, d |-> 1]

Rat(n, d) ==
  LET g == Gcd(Abs(n), d)
  IN [nan |-> FALSE, n |-> n \div g, d |-> d \div g]

Int2Num(i) == Rat(i, 1)

isNaN(x) == x.nan

NumAdd(x, y) ==
  IF x.nan \/ y.nan THEN NaN ELSE Rat(x.n * y.d + y.n * x.d, x.d * y.d)

NumSub(x, y) ==
  IF x.nan \/ y.nan THEN NaN ELSE Rat(x.n * y.d - y.n * x.d, x.d * y.d)

\* x / y. A zero divisor only meets a zero dividend here (0/0 is NaN): the
\* dividend is value - min and the divisor max - min of the same values.
NumDiv(x, y) ==
  IF x.nan \/ y.nan \/ y.n = 0 THEN NaN
  ELSE IF y.n > 0 THEN Rat(x.n * y.d, x.d * y.n)
  ELSE Rat(-(x.n * y.d), x.d * (-y.n))

\* x < y, x >= y as JavaScript compares: false when either side is NaN.
NumLt(x, y) == ~x.nan /\ ~y.nan /\ x.n * y.d < y.n * x.d
NumGe(x, y) == ~x.nan /\ ~y.nan /\ x.n * y.d >= y.n * x.d

\* ---------------------------------------------------- parseInt, parseFloat
\* A string is a sequence of one-character strings.
DigitChars == {"0", "1", "2", "3", "4", "5", "6", "7", "8", "9"}

DigitVal(ch) ==
  CASE ch = "0" -> 0 [] ch = "1" -> 1 [] ch = "2" -> 2 [] ch = "3" -> 3
    [] ch = "4" -> 4 [] ch = "5" -> 5 [] ch = "6" -> 6 [] ch = "7" -> 7
    [] ch = "8" -> 8 [] ch = "9" -> 9

\* parseInt of a one-character string: the digit, or NaN.
parseIntChar(ch) == IF ch \in DigitChars THEN Int2Num(DigitVal(ch)) ELSE NaN

RECURSIVE TrimStart(_)
TrimStart(s) ==
  IF s # <<>> /\ Head(s) = " " THEN TrimStart(Tail(s)) ELSE s

\* The longest prefix of s made of digits.
RECURSIVE DigitPrefix(_)
DigitPrefix(s) ==
  IF s # <<>> /\ Head(s) \in DigitChars
  THEN <<Head(s)>> \o DigitPrefix(Tail(s)) ELSE <<>>

RECURSIVE DigitsValue(_)
DigitsValue(ds) ==
  IF ds = <<>> THEN 0
  ELSE 10 * DigitsValue(SubSeq(ds, 1, Len(ds) - 1)) + DigitVal(ds[Len(ds)])

RECURSIVE Pow10(_)
Pow10(k) == IF k = 0 THEN 1 ELSE 10 * Pow10(k - 1)

Drop(s, k) == SubSeq(s, k + 1, Len(s))

\* parseFloat: leading white space is skipped, then the longest prefix that
\* is a decimal literal (sign, digits, fraction) is read; NaN when there is
\* none. Exponents and "Infinity" need characters outside RawChars.
parseFloat(str) ==
  LET t == TrimStart(str)
      neg == t # <<>> /\ Head(t) = "-"
      u == IF t # <<>> /\ Head(t) \in {"-", "+"} THEN Tail(t) ELSE t
      ip == DigitPrefix(u)
      r == Drop(u, Len(ip))
      fp == IF r # <<>> /\ Head(r) = "." THEN DigitPrefix(Tail(r)) ELSE <<>>
      mag == Rat(DigitsValue(ip) * Pow10(Len(fp)) + DigitsValue(fp), Pow10(Len(fp)))
  IN IF ip = <<>> /\ fp = <<>> THEN NaN
     ELSE IF neg THEN Rat(-mag.n, mag.d) ELSE mag

\* MemoryDB.addMemories, lines 108-120: the importance of a draft from the
\* language model's response. The loop over the characters assigns the first
\* digit, and the parseFloat of the whole response then overwrites it.
RECURSIVE FirstDigitLoop(_, _, _)
FirstDigitLoop(importanceRaw, i, importance) ==
  IF i > Len(importanceRaw) THEN importance
  ELSE LET number == parseIntChar(importanceRaw[i])
       IN IF ~isNaN(number) THEN number
          ELSE FirstDigitLoop(importanceRaw, i + 1, importance)

DefaultImportance == 5

ParseImportance(importanceRaw) ==
  LET looped == FirstDigitLoop(importanceRaw, 1, NaN)
      importance == parseFloat(importanceRaw)
  IN IF isNaN(importance) THEN Int2Num(DefaultImportance) ELSE importance

RECURSIVE StringsUpTo(_)
StringsUpTo(k) ==
  IF k = 0 THEN {<<>>}
  ELSE LET S == StringsUpTo(k - 1)
       IN S \cup {Append(s, ch) : s \in {x \in S : Len(x) = k - 1}, ch \in RawChars}

RawResponses == StringsUpTo(MaxRawLen)

\* ------------------------------------------------------------------ state
VARIABLES
  embeddings,      \* table 'embeddings': row i has _id i
  memories,        \* table 'memories': row i has _id i
  memoryAccesses,  \* table 'memoryAccesses', in insertion order
  pinecone,        \* the vectors upserted into namespace 'embeddings'
  now,             \* the clock, in ticks
  call,            \* the addMemories calls in flight, by slot
  returned,        \* what the last accessMemories mutation or search did
  journal,         \* table 'journal': row i has _id i
  remember         \* the rememberConversation call

vars ==
  <<embeddings, memories, memoryAccesses, pinecone, now, call, returned,
    journal, remember>>

\* The vector the embedding provider computes for a text.
VecOf(text) == [of |-> text]
ExtraVec == [of |-> "?"]

OtherData == [type |-> "reflection", conversationId |-> "-"]

\* NewMemory (line 19): a draft; importance is optional.
SuppliedImportance == {Int2Num(0), Int2Num(9)}
Drafts ==
  [playerId : Players, description : Texts,
   importance : {None} \cup {Some(i) : i \in SuppliedImportance},
   data : {OtherData}]
DraftsWithImportance == {d \in Drafts : IsSome(d.importance)}

SeqsUpTo(S, k) == UNION {[1..n -> S] : n \in 1..k}

Range(f) == {f[i] : i \in DOMAIN f}

RECURSIVE Reverse(_)
Reverse(s) == IF s = <<>> THEN <<>> ELSE Append(Reverse(Tail(s)), Head(s))

\* A lookup that forgets the text: the embedding of the first row, if any.
FirstOfAnyText(text) ==
  IF embeddings = <<>> THEN None ELSE Some(embeddings[1].embedding)

\* checkEmbeddingCache: for each text the embedding of the first row of
\* 'embeddings' with that text, or null.
FirstWithText(text) ==
  LET hits == {i \in 1..Len(embeddings) : embeddings[i].text = text}
  IN IF hits = {} THEN None
     ELSE Some(embeddings[CHOOSE i \in hits : \A j \in hits : i <= j].embedding)

checkEmbeddingCache(texts) == [i \in 1..Len(texts) |-> FirstWithText(texts[i])]

\* Lines 81-83: memoriesWithoutEmbedding.filter((memory, idx) =>
\* !cachedEmbeddings[idx]).map((memory) => memory.description), from idx on.
RECURSIVE MissesFrom(_, _, _)
MissesFrom(drafts, cachedEmbeddings, idx) ==
  IF idx > Len(drafts) THEN <<>>
  ELSE (IF ~IsSome(cachedEmbeddings[idx]) THEN <<drafts[idx].description>> ELSE <<>>)
       \o MissesFrom(drafts, cachedEmbeddings, idx + 1)

CacheMisses(drafts, cachedEmbeddings) == MissesFrom(drafts, cachedEmbeddings, 1)

\* Lines 88-90: missingEmbeddings.reverse(), then
\* cachedEmbeddings.map((cached) => cached || missingEmbeddings.pop()).
\* stack is the reversed list; pop takes its last element, undefined when empty.
RECURSIVE PopFill(_, _)
PopFill(cachedEmbeddings, stack) ==
  IF cachedEmbeddings = <<>> THEN <<>>
  ELSE IF IsSome(Head(cachedEmbeddings))
       THEN <<Head(cachedEmbeddings)>> \o PopFill(Tail(cachedEmbeddings), stack)
       ELSE IF stack = <<>>
            THEN <<None>> \o PopFill(Tail(cachedEmbeddings), stack)
            ELSE <<Some(stack[Len(stack)])>>
                 \o PopFill(Tail(cachedEmbeddings), SubSeq(stack, 1, Len(stack) - 1))

\* The merge without the reverse(): pop then takes the last vector first.
MergeWithoutReverse(cachedEmbeddings, missingEmbeddings) ==
  PopFill(cachedEmbeddings, missingEmbeddings)

MergeEmbeddings(cachedEmbeddings, missingEmbeddings) ==
  PopFill(cachedEmbeddings, Reverse(missingEmbeddings))

\* What fetchEmbeddingBatch may answer for texts: one vector per text in
\* request order, or fewer of them, or one more.
ProviderAnswers(texts) ==
  LET full == [i \in 1..Len(texts) |-> VecOf(texts[i])]
  IN {SubSeq(full, 1, k) : k \in 0..Len(texts)} \cup {Append(full, ExtraVec)}

\* returned when the last step was not an accessMemories.
NoReturn ==
  [op |-> "none", threw |-> FALSE, candidates |-> <<>>, count |-> 0, ts |-> 0,
   rowsBefore |-> 0, relatedMemories |-> <<>>, recencyScore |-> <<>>,
   normalized |-> <<>>, result |-> <<>>]

IdleCall ==
  [pc |-> "idle", drafts |-> <<>>, cachedEmbeddings |-> <<>>,
   cacheMisses |-> <<>>, answered |-> 0, embeddings |-> <<>>,
   importance |-> <<>>, importanceRaw |-> <<>>, completions |-> 0,
   embeddingIds |-> <<>>]

\* No rememberConversation call yet. lastConversationMemory and messages are
\* locals of the call; seen is the length of the journal when
\* getRecentMessages ran.
IdleRemember ==
  [pc |-> "idle", playerId |-> "-", conversationId |-> "-", lastSpokeTs |-> None,
   lastConversationMemory |-> None, messages |-> <<>>,
   seen |-> 0, description |-> <<>>, result |-> FALSE]

Init ==
  /\ embeddings = <<>>
  /\ memories = <<>>
  /\ memoryAccesses = <<>>
  /\ pinecone = {}
  /\ now = 0
  /\ call = [c \in Calls |-> IdleCall]
  /\ returned = NoReturn
  /\ journal = <<>>
  /\ remember = IdleRemember

\* Drafts of calls that have not committed yet.
Pending(c) ==
  IF call[c].pc \in {"fetching", "scoring"} THEN Len(call[c].drafts) ELSE 0

RECURSIVE SumPending(_)
SumPending(S) ==
  IF S = {} THEN 0
  ELSE LET c == CHOOSE x \in S : TRUE IN Pending(c) + SumPending(S \ {c})

\* ------------------------------------------------- MemoryDB.addMemories
\* A falsy test of the importance: it also takes a supplied 0 for unset.
ImportanceFalsy(memory) ==
  memory.importance = None \/ memory.importance = Some(Int2Num(0))

\* Line 95: memory.importance === undefined.
ImportanceUnset(memory) == memory.importance = None

\* Lines 78-86: the getEmbeddingsByText query and the cache misses. With no
\* miss the provider is not called and the embeddings are the cached ones.
GetEmbeddingsByText(c, drafts) ==
  /\ call[c].pc \in {"idle", "done", "failed"}
  /\ Len(memories) + SumPending(Calls) + Len(drafts) <= MaxRows
  /\ LET cached == checkEmbeddingCache([i \in 1..Len(drafts) |-> drafts[i].description])
         misses == CacheMisses(drafts, cached)
     IN call' = [call EXCEPT ![c] =
          [pc |-> IF misses = <<>> THEN "scoring" ELSE "fetching",
           drafts |-> drafts,
           cachedEmbeddings |-> cached,
           cacheMisses |-> misses,
           answered |-> 0,
           embeddings |-> IF misses = <<>> THEN MergeEmbeddings(cached, <<>>) ELSE <<>>,
           importance |-> [i \in 1..Len(drafts) |->
                            IF ImportanceUnset(drafts[i]) THEN None
                            ELSE drafts[i].importance],
           importanceRaw |-> [i \in 1..Len(drafts) |-> None],
           completions |-> 0,
           embeddingIds |-> <<>>]]
  /\ returned' = NoReturn
  /\ UNCHANGED <<embeddings, memories, memoryAccesses, pinecone, now, journal, remember>>

\* Lines 84-90: fetchEmbeddingBatch(cacheMisses) answers, and the answer is
\* merged with the cached embeddings.
FetchEmbeddingBatch(c) ==
  /\ call[c].pc = "fetching"
  /\ \E answer \in ProviderAnswers(call[c].cacheMisses) :
       call' = [call EXCEPT ![c].pc = "scoring",
                            ![c].answered = Len(answer),
                            ![c].embeddings =
                               MergeEmbeddings(call[c].cachedEmbeddings, answer)]
  /\ returned' = NoReturn
  /\ UNCHANGED <<embeddings, memories, memoryAccesses, pinecone, now, journal, remember>>

\* Lines 95-121: one chatGPTCompletion of the asyncMap answers, for a draft
\* whose importance is unset.
ChatGPTCompletion(c) ==
  /\ call[c].pc = "scoring"
  /\ \E idx \in 1..Len(call[c].drafts), importanceRaw \in RawResponses :
       /\ call[c].importance[idx] = None
       /\ call' = [call EXCEPT ![c].importance[idx] = Some(ParseImportance(importanceRaw)),
                               ![c].importanceRaw[idx] = Some(importanceRaw),
                               ![c].completions = @ + 1]
  /\ returned' = NoReturn
  /\ UNCHANGED <<embeddings, memories, memoryAccesses, pinecone, now, journal, remember>>

\* The addMemories mutation (lines 271-282), one transaction: for each memory
\* an 'embeddings' row, then a 'memories' row that references it. The
\* responses of the language model are locals of the asyncMap callbacks and
\* are gone once the memories are built.
InsertedEmbeddings(c) ==
  [i \in 1..Len(call[c].drafts) |->
     [playerId |-> call[c].drafts[i].playerId,
      embedding |-> Val(call[c].embeddings[i]),
      text |-> call[c].drafts[i].description]]

\* Memories that all reference the first embedding the call inserts.
InsertedMemoriesOneEmbedding(c) ==
  [i \in 1..Len(call[c].drafts) |->
     [playerId |-> call[c].drafts[i].playerId,
      description |-> call[c].drafts[i].description,
      importance |-> Val(call[c].importance[i]),
      data |-> call[c].drafts[i].data,
      embeddingId |-> Len(embeddings) + 1,
      creationTime |-> now]]

InsertedMemories(c) ==
  [i \in 1..Len(call[c].drafts) |->
     [playerId |-> call[c].drafts[i].playerId,
      description |-> call[c].drafts[i].description,
      importance |-> Val(call[c].importance[i]),
      data |-> call[c].drafts[i].data,
      embeddingId |-> Len(embeddings) + i,
      creationTime |-> now]]

\* Line 272: the argument validator; embedding must be an array of numbers.
ArgsValid(c) == \A i \in 1..Len(call[c].drafts) : IsSome(call[c].embeddings[i])

AddMemoriesMutation(c) ==
  /\ call[c].pc = "scoring"
  /\ \A i \in 1..Len(call[c].drafts) : IsSome(call[c].importance[i])
  /\ IF ArgsValid(c)
     THEN /\ embeddings' = embeddings \o InsertedEmbeddings(c)
          /\ memories' = memories \o InsertedMemories(c)
          /\ call' = [call EXCEPT ![c].pc = "upserting",
                                  ![c].importanceRaw = <<>>,
                                  ![c].embeddingIds =
                                     [i \in 1..Len(call[c].drafts) |-> Len(embeddings) + i]]
     ELSE /\ call' = [call EXCEPT ![c] = [IdleCall EXCEPT !.pc = "failed"]]
          /\ UNCHANGED <<embeddings, memories>>
  /\ returned' = NoReturn
  /\ UNCHANGED <<memoryAccesses, pinecone, now, journal, remember>>

\* Lines 127-135: upsertVectors of one item per embedding id; the call then
\* returns and its locals are gone.
UpsertItemsOfFirstDraft(c) ==
  {[id |-> call[c].embeddingIds[idx],
    values |-> Val(call[c].embeddings[1]),
    playerId |-> call[c].drafts[1].playerId] : idx \in 1..Len(call[c].embeddingIds)}

UpsertItems(c) ==
  {[id |-> call[c].embeddingIds[idx],
    values |-> Val(call[c].embeddings[idx]),
    playerId |-> call[c].drafts[idx].playerId] : idx \in 1..Len(call[c].embeddingIds)}

UpsertVectors(c) ==
  /\ call[c].pc = "upserting"
  /\ pinecone' = {v \in pinecone : \A u \in UpsertItems(c) : u.id # v.id}
                   \cup UpsertItems(c)
  /\ call' = [call EXCEPT ![c] = [IdleCall EXCEPT !.pc = "done"]]
  /\ returned' = NoReturn
  /\ UNCHANGED <<embeddings, memories, memoryAccesses, now, journal, remember>>

\* Ingestion, one call at a time: drafts of one player, with importance
\* supplied or left to the language model.
IngestDrafts == {d \in Drafts : d.playerId = "p1"}

Next ==
  \/ \E drafts \in SeqsUpTo(IngestDrafts, MaxBatch) : GetEmbeddingsByText(1, drafts)
  \/ FetchEmbeddingBatch(1)
  \/ ChatGPTCompletion(1)
  \/ AddMemoriesMutation(1)
  \/ UpsertVectors(1)

Spec == Init /\ [][Next]_vars

\* ------------------------------------------------------- accessMemories
Min(a, b) == IF a < b THEN a ELSE b

\* Scores the vector index gives (cosine similarities).
Scores == {Rat(5, 10), Rat(9, 10)}

\* The rankings of k of the ids: distinct ids, scores that do not increase.
RECURSIVE Rankings(_, _)
Rankings(ids, k) ==
  IF k = 0 THEN {<<>>}
  ELSE UNION {{<<[_id |-> id, score |-> score]>> \o r :
                 r \in {x \in Rankings(ids \ {id}, k - 1) :
                          x = <<>> \/ NumGe(score, x[1].score)}} :
              id \in ids, score \in Scores}

\* queryVectors('embeddings', embedding, {playerId}, limit): the limit nearest
\* vectors whose metadata has this playerId, ranked by descending score.
QueryVectors(playerId, limit) ==
  LET ids == {v.id : v \in {u \in pinecone : u.playerId = playerId}}
  IN Rankings(ids, Min(limit, Cardinality(ids)))

\* Lines 50-51.
vectorSearch(playerId, limit) == QueryVectors(playerId, limit)

\* A lookup that forgets the embedding: the newest memory of the player.
getNewestMemoryOfPlayer(playerId, embeddingId) ==
  LET docs == {m \in 1..Len(memories) : memories[m].playerId = playerId}
  IN IF docs = {} THEN None
     ELSE Some(CHOOSE m \in docs : \A o \in docs : o <= m)

\* A lookup that does not throw: where the player has no memory with this
\* embedding it answers with the first memory of the table.
getMemoryOrFirst(playerId, embeddingId) ==
  LET docs == {m \in 1..Len(memories) :
                 memories[m].playerId = playerId /\ memories[m].embeddingId = embeddingId}
  IN IF docs # {} THEN Some(CHOOSE m \in docs : \A o \in docs : o <= m)
     ELSE IF memories = <<>> THEN None ELSE Some(1)

\* Lines 286-300: the newest memory of the player with this embedding, as its
\* _id; None where the code throws.
getMemoryByEmbeddingId(playerId, embeddingId) ==
  LET docs == {m \in 1..Len(memories) :
                 memories[m].playerId = playerId /\ memories[m].embeddingId = embeddingId}
  IN IF docs = {} THEN None
     ELSE Some(CHOOSE m \in docs : \A o \in docs : o <= m)

\* Lines 207-211: the newest memoryAccesses row of a memory, as its position.
LatestAccess(memoryId) ==
  LET rows == {a \in 1..Len(memoryAccesses) : memoryAccesses[a].memoryId = memoryId}
  IN IF rows = {} THEN None
     ELSE Some(CHOOSE a \in rows : \A o \in rows : o <= a)

\* ToInt32 of a number that is not NaN: the fraction is dropped. The values
\* met here (0.99 and a count of hours) are far below 2^31, where it wraps.
ToInt32(x) == IF x.n >= 0 THEN x.n \div x.d ELSE -((-x.n) \div x.d)

\* a ^ b, bitwise exclusive or, of two int32 that are not negative.
RECURSIVE BitXor(_, _)
BitXor(a, b) ==
  IF a = 0 /\ b = 0 THEN 0
  ELSE (((a % 2) + (b % 2)) % 2) + 2 * BitXor(a \div 2, b \div 2)

\* Lines 212-214, the clock in ticks: 1 for a memory never accessed, else
\* 0.99 ^ Math.floor(hours since the newest access), ^ being exclusive or.
RecencyOf(memoryId, ts) ==
  LET access == LatestAccess(memoryId)
  IN IF ~IsSome(access) THEN Int2Num(1)
     ELSE LET accessTime == IF IsSome(access)
                            THEN memoryAccesses[Val(access)].creationTime
                            ELSE memories[memoryId].creationTime
          IN Int2Num(BitXor(ToInt32(Rat(99, 100)),
                            ToInt32(Int2Num((ts - accessTime) \div TicksPerHour))))

\* Lines 240-244, for at least one value (with none the range is
\* [Infinity, -Infinity], and no candidate reads it).
makeRange(values) ==
  LET V == Range(values)
  IN IF \E v \in V : v.nan THEN <<NaN, NaN>>
     ELSE <<CHOOSE v \in V : \A w \in V : ~NumLt(w, v),
            CHOOSE v \in V : \A w \in V : ~NumLt(v, w)>>

\* Lines 235-238.
normalize(value, range) ==
  NumDiv(NumSub(value, range[1]), NumSub(range[2], range[1]))

\* Line 226: Array.prototype.sort, a stable sort, with the comparator
\* (a, b) => b.overallScore - a.overallScore. A comparator result that is NaN
\* counts as 0; a result > 0 puts a after b.
SortCompare(a, b) == NumSub(b.overallScore, a.overallScore)

RECURSIVE InsertSorted(_, _)
InsertSorted(s, x) ==
  IF s = <<>> THEN <<x>>
  ELSE LET c == SortCompare(Head(s), x)
       IN IF ~c.nan /\ c.n > 0 THEN <<x>> \o s
          ELSE <<Head(s)>> \o InsertSorted(Tail(s), x)

RECURSIVE SortScores(_)
SortScores(s) ==
  IF s = <<>> THEN <<>>
  ELSE InsertSorted(SortScores(SubSeq(s, 1, Len(s) - 1)), s[Len(s)])

\* slice(0, count) that keeps one element too many.
SliceOneMore(s, count) == SubSeq(s, 1, Min(count + 1, Len(s)))

\* Line 227: slice(0, count), count >= 0.
Slice(s, count) == SubSeq(s, 1, Min(count, Len(s)))

\* Lines 201-203: the memory of each candidate.
RelatedMemories(playerId, candidates) ==
  [i \in 1..Len(candidates) |-> getMemoryByEmbeddingId(playerId, candidates[i]._id)]

\* Lines 216-225: the three normalized signals of each candidate.
Normalized(candidates, relatedMemories, recencyScore) ==
  LET n == Len(candidates)
      relevanceRange == makeRange([i \in 1..n |-> candidates[i].score])
      importanceRange ==
        makeRange([i \in 1..n |-> memories[relatedMemories[i]].importance])
      recencyRange == makeRange(recencyScore)
  IN [idx \in 1..n |->
       [relevance |-> normalize(candidates[idx].score, relevanceRange),
        importance |-> normalize(memories[relatedMemories[idx]].importance,
                                 importanceRange),
        recency |-> normalize(recencyScore[idx], recencyRange)]]

MemoryScores(relatedMemories, normalized) ==
  [idx \in 1..Len(relatedMemories) |->
     [memory |-> relatedMemories[idx],
      overallScore |-> NumAdd(NumAdd(normalized[idx].relevance,
                                     normalized[idx].importance),
                              normalized[idx].recency)]]

\* The accessMemories mutation (lines 199-232) on the candidates of the
\* vector search (line 69), one transaction.
AccessMemoriesMutation(playerId, candidates, count) ==
  \E ts \in {now}, found \in {RelatedMemories(playerId, candidates)} :
    IF \E i \in 1..Len(candidates) : ~IsSome(found[i])
    THEN /\ returned' = [op |-> "accessMemories", threw |-> TRUE, playerId |-> playerId,
                         candidates |-> candidates, count |-> count,
                         ts |-> ts, rowsBefore |-> Len(memoryAccesses),
                         relatedMemories |-> <<>>, recencyScore |-> <<>>,
                         normalized |-> <<>>, result |-> <<>>]
         /\ UNCHANGED memoryAccesses
    ELSE \E relatedMemories \in {[i \in 1..Len(candidates) |-> Val(found[i])]} :
         \E recencyScore \in
              {[i \in 1..Len(candidates) |-> RecencyOf(relatedMemories[i], ts)]} :
         \E normalized \in {Normalized(candidates, relatedMemories, recencyScore)} :
         \E memoryScores \in {MemoryScores(relatedMemories, normalized)} :
         \E accessed \in {Slice(SortScores(memoryScores), count)} :
           /\ memoryAccesses' = memoryAccesses \o
                [i \in 1..Len(accessed) |->
                   [memoryId |-> accessed[i].memory, creationTime |-> ts]]
           /\ returned' = [op |-> "accessMemories", threw |-> FALSE, playerId |-> playerId,
                           candidates |-> candidates, count |-> count,
                           ts |-> ts, rowsBefore |-> Len(memoryAccesses),
                           relatedMemories |-> relatedMemories,
                           recencyScore |-> recencyScore,
                           normalized |-> normalized, result |-> accessed]

\* MemoryDB.accessMemories (lines 68-75).
AccessMemories(playerId, count) ==
  /\ Len(memoryAccesses) + count <= MaxAccessRows
  /\ \E results \in vectorSearch(playerId, 10 * count) :
       AccessMemoriesMutation(playerId, results, count)
  /\ UNCHANGED <<embeddings, memories, pinecone, now, call, journal, remember>>

\* Time passes.
Tick ==
  /\ now < MaxTime
  /\ now' = now + 1
  /\ returned' = NoReturn
  /\ UNCHANGED <<embeddings, memories, memoryAccesses, pinecone, call, journal, remember>>

\* Retrieval over memories ingested with a supplied importance.
AccessDrafts ==
  {d \in DraftsWithImportance : d.description = "a" /\ d.playerId = "p1"}

NextAccess ==
  \/ \E drafts \in SeqsUpTo(AccessDrafts, MaxBatch) : GetEmbeddingsByText(1, drafts)
  \/ FetchEmbeddingBatch(1)
  \/ AddMemoriesMutation(1)
  \/ UpsertVectors(1)
  \/ \E count \in 0..MaxCount : AccessMemories("p1", count)
  \/ Tick

SpecAccess == Init /\ [][NextAccess]_vars

\* ------------------------------------------------------- MemoryDB.search
\* Line 58: limit = 100.
DefaultLimit == 100

\* The getMemories query (lines 184-191).
getMemories(playerId, embeddingIds) ==
  [i \in 1..Len(embeddingIds) |-> getMemoryByEmbeddingId(playerId, embeddingIds[i])]

\* What search leaves in 'returned': the candidates of the index and the
\* pairs it returns, or threw where getMemories throws.
SearchReturn(playerId, limit, results, found) ==
  LET threw == \E i \in 1..Len(found) : ~IsSome(found[i])
  IN [op |-> "search", threw |-> threw, playerId |-> playerId, limit |-> limit,
      candidates |-> results,
      result |-> IF threw THEN <<>>
                 ELSE [idx \in 1..Len(results) |->
                         [memory |-> Val(found[idx]), score |-> results[idx].score]]]

\* A search that marks what it finds as accessed.
SearchMarking(playerId, limit) ==
  /\ \E results \in vectorSearch(playerId, limit) :
     \E found \in {getMemories(playerId, [i \in 1..Len(results) |-> results[i]._id])} :
       /\ returned' = SearchReturn(playerId, limit, results, found)
       /\ memoryAccesses' = memoryAccesses \o
            [i \in 1..Len(returned'.result) |->
               [memoryId |-> returned'.result[i].memory, creationTime |-> now]]
  /\ UNCHANGED <<embeddings, memories, pinecone, now, call, journal, remember>>

\* MemoryDB.search (lines 58-66): the vector search, the getMemories query,
\* and the pairs of memory and score by position. It inserts nothing.
Search(playerId, limit) ==
  /\ \E results \in vectorSearch(playerId, limit) :
     \E found \in {getMemories(playerId, [i \in 1..Len(results) |-> results[i]._id])} :
       returned' = SearchReturn(playerId, limit, results, found)
  /\ UNCHANGED <<embeddings, memories, memoryAccesses, pinecone, now, call, journal, remember>>

\* Search and retrieval over memories of both players.
SearchDrafts ==
  {d \in Drafts : d.description = "a" /\ d.importance = Some(Int2Num(9))}

NextSearch ==
  \/ \E drafts \in SeqsUpTo(SearchDrafts, MaxBatch) : GetEmbeddingsByText(1, drafts)
  \/ FetchEmbeddingBatch(1)
  \/ AddMemoriesMutation(1)
  \/ UpsertVectors(1)
  \/ \E playerId \in Players, limit \in {1, DefaultLimit} : Search(playerId, limit)
  \/ \E playerId \in Players, count \in 1..MaxCount : AccessMemories(playerId, count)

SpecSearch == Init /\ [][NextSearch]_vars

\* The vector index is a service of its own and outlives the tables: here it
\* starts with a vector whose embedding is not in 'embeddings'.
StaleVector == [id |-> 0, values |-> ExtraVec, playerId |-> "p1"]

InitStale ==
  /\ embeddings = <<>>
  /\ memories = <<>>
  /\ memoryAccesses = <<>>
  /\ pinecone = {StaleVector}
  /\ now = 0
  /\ call = [c \in Calls |-> IdleCall]
  /\ returned = NoReturn
  /\ journal = <<>>
  /\ remember = IdleRemember

SpecStale == InitStale /\ [][NextSearch]_vars

\* ------------------------------------------------- getRecentMessages
Conversations == {"c1", "c2"}

\* What is written to the journal: p1 talks to p2, p2 talks to p1, p2 talks
\* to somebody else, and an entry that is not of type 'talking'.
EntryKinds ==
  {[playerId |-> "p1", type |-> "talking", audience |-> {"p2"}],
   [playerId |-> "p2", type |-> "talking", audience |-> {"p1"}],
   [playerId |-> "p2", type |-> "talking", audience |-> {"p3"}],
   [playerId |-> "p1", type |-> "started", audience |-> {"p2"}]}

\* A journal entry is inserted. _creationTime grows from one document to the
\* next: the clock moves before and after the insert.
Talk(entry, conversationId) ==
  /\ Len(journal) < MaxMessages
  /\ journal' = Append(journal,
       [playerId |-> entry.playerId,
        data |-> [type |-> entry.type, audience |-> entry.audience,
                  conversationId |-> conversationId],
        creationTime |-> now + 1])
  /\ now' = now + 2
  /\ returned' = NoReturn
  /\ UNCHANGED <<embeddings, memories, memoryAccesses, pinecone, call, remember>>

\* The first element of a descending order by _creationTime: rows are in
\* insertion order, so it is the one with the largest _id.
Newest(S) == IF S = {} THEN None ELSE Some(CHOOSE m \in S : \A o \in S : o <= m)

\* Index by_playerId_type with data.type 'conversation'.
ConversationMemoriesOf(playerId) ==
  {m \in 1..Len(memories) :
     memories[m].playerId = playerId /\ memories[m].data.type = "conversation"}

\* Lines 328-334.
LastConversationMemory(playerId) == Newest(ConversationMemoriesOf(playerId))

\* lastConversationMemory?.data.conversationId === conversationId.
IsThisConversation(last, conversationId) ==
  IsSome(last) /\ memories[Val(last)].data.conversationId = conversationId

\* Line 336: lastSpokeTs && lastSpokeTs < (lastConversationMemory?._creationTime
\* ?? 0). An undefined lastSpokeTs is falsy, and so is 0.
SpokeBeforeLastMemory(lastSpokeTs, last) ==
  /\ IsSome(lastSpokeTs)
  /\ Val(lastSpokeTs) # 0
  /\ Val(lastSpokeTs) <
       (IF IsSome(last) THEN memories[Val(last)].creationTime ELSE 0)

\* Lines 341-352: the 'talking' entries of the conversation in index order,
\* those after the last memory if that is a memory of this conversation.
RECURSIVE TalkingFrom(_, _, _)
TalkingFrom(conversationId, last, j) ==
  IF j > Len(journal) THEN <<>>
  ELSE (IF /\ journal[j].data.conversationId = conversationId
           /\ IsThisConversation(last, conversationId) =>
                journal[j].creationTime > memories[Val(last)].creationTime
           /\ journal[j].data.type = "talking"
        THEN <<j>> ELSE <<>>)
       \o TalkingFrom(conversationId, last, j + 1)

AllMessages(conversationId, last) == TalkingFrom(conversationId, last, 1)

\* Lines 362-372: the newest conversation memory of the player created after
\* the first message, of this conversation.
PreviousConversationMemory(playerId, conversationId, allMessages) ==
  Newest({m \in ConversationMemoriesOf(playerId) :
            /\ memories[m].creationTime > journal[allMessages[1]].creationTime
            /\ memories[m].data.conversationId = conversationId})

\* A boundary that looks at the last conversation memory only.
LastMemoryTsOfLastOnly(playerId, conversationId, last, allMessages) ==
  IF IsThisConversation(last, conversationId)
  THEN memories[Val(last)].creationTime
  ELSE 0

\* Lines 358-373: lastMemoryTs. allMessages is not empty in the second branch.
LastMemoryTs(playerId, conversationId, last, allMessages) ==
  IF IsThisConversation(last, conversationId)
  THEN memories[Val(last)].creationTime
  ELSE LET previous ==
             PreviousConversationMemory(playerId, conversationId, allMessages)
       IN IF IsSome(previous) THEN memories[Val(previous)].creationTime ELSE 0

\* The message of a journal entry: sender, audience and time.
clientMessageMapper(j) ==
  [from |-> journal[j].playerId, to |-> journal[j].data.audience,
   ts |-> journal[j].creationTime]

\* Lines 375-377: m.ts > lastMemoryTs && (m.from === playerId ||
\* m.to.includes(playerId)).
RECURSIVE FilterRecent(_, _, _)
FilterRecent(allMessages, lastMemoryTs, playerId) ==
  IF allMessages = <<>> THEN <<>>
  ELSE LET m == clientMessageMapper(Head(allMessages))
       IN (IF m.ts > lastMemoryTs /\ (m.from = playerId \/ playerId \in m.to)
           THEN <<Head(allMessages)>> ELSE <<>>)
          \o FilterRecent(Tail(allMessages), lastMemoryTs, playerId)

\* The getRecentMessages query (lines 320-379). Line 364 reads
\* allMessages[0]._creationTime: with no message that is a TypeError.
getRecentMessages(playerId, conversationId, lastSpokeTs) ==
  LET last == LastConversationMemory(playerId)
      allMessages == AllMessages(conversationId, last)
  IN IF SpokeBeforeLastMemory(lastSpokeTs, last)
     THEN [threw |-> FALSE, lastConversationMemory |-> last, messages |-> <<>>]
     ELSE IF ~IsThisConversation(last, conversationId) /\ allMessages = <<>>
     THEN [threw |-> TRUE, lastConversationMemory |-> last, messages |-> <<>>]
     ELSE [threw |-> FALSE, lastConversationMemory |-> last,
           messages |-> FilterRecent(allMessages,
                          LastMemoryTs(playerId, conversationId, last, allMessages),
                          playerId)]

\* ------------------------------------------- MemoryDB.rememberConversation
\* Lines 139-144: the getRecentMessages query; with no message the call
\* returns false, and it ends where the query throws.
RememberConversation(playerId, conversationId, lastSpokeTs) ==
  /\ remember.pc \in {"idle", "returned", "threw", "failed"}
  /\ Len(memories) < MaxRows
  /\ \E r \in {getRecentMessages(playerId, conversationId, lastSpokeTs)} :
       remember' =
         [pc |-> IF r.threw THEN "threw"
                 ELSE IF r.messages = <<>> THEN "returned" ELSE "summarizing",
          playerId |-> playerId, conversationId |-> conversationId,
          lastSpokeTs |-> lastSpokeTs,
          lastConversationMemory |-> r.lastConversationMemory,
          messages |-> r.messages,
          seen |-> Len(journal), description |-> <<>>, result |-> FALSE]
  /\ returned' = NoReturn
  /\ UNCHANGED <<embeddings, memories, memoryAccesses, pinecone, now, call, journal>>

\* The summary the language model writes stands for the messages it was
\* given.
SummaryOf(messages) == messages

\* Lines 145-159: the chatGPTCompletion of the summary answers, after some
\* time.
SummaryCompletion ==
  /\ remember.pc = "summarizing"
  /\ now < MaxClock
  /\ remember' = [remember EXCEPT !.pc = "adding", !.messages = <<>>,
                                  !.description = SummaryOf(remember.messages)]
  /\ now' = now + 1
  /\ returned' = NoReturn
  /\ UNCHANGED <<embeddings, memories, memoryAccesses, pinecone, call, journal>>

\* Lines 160-169: the draft handed to addMemories, its importance unset.
ConversationDraft ==
  [playerId |-> remember.playerId,
   description |-> remember.description,
   importance |-> None,
   data |-> [type |-> "conversation", conversationId |-> remember.conversationId]]

\* Line 160: this.addMemories([...]) starts.
AddConversationMemory ==
  /\ remember.pc = "adding"
  /\ call[1].pc = "idle"
  /\ GetEmbeddingsByText(1, <<ConversationDraft>>)

\* Lines 160-170: addMemories has returned, and rememberConversation returns
\* true; or addMemories has thrown, and so does rememberConversation.
RememberReturns ==
  /\ remember.pc = "adding"
  /\ call[1].pc \in {"done", "failed"}
  /\ remember' = [remember EXCEPT !.pc = IF call[1].pc = "done" THEN "returned"
                                         ELSE "failed",
                                  !.result = (call[1].pc = "done")]
  /\ call' = [call EXCEPT ![1] = IdleCall]
  /\ returned' = NoReturn
  /\ UNCHANGED <<embeddings, memories, memoryAccesses, pinecone, now, journal>>

\* Conversations of p1, one rememberConversation call at a time; lastSpokeTs
\* is left out, or 0, or 1. The embedding provider answers in full and the
\* language model rates every summary "7".
NextConv ==
  \/ \E entry \in EntryKinds, conversationId \in Conversations :
       Talk(entry, conversationId)
  \/ \E conversationId \in Conversations,
        lastSpokeTs \in {None, Some(0), Some(1)} :
       RememberConversation("p1", conversationId, lastSpokeTs)
  \/ SummaryCompletion
  \/ AddConversationMemory
  \/ FetchEmbeddingBatch(1) /\ call'[1].answered = Len(call[1].cacheMisses)
  \/ ChatGPTCompletion(1) /\ call'[1].importanceRaw[1] = Some(<<"7">>)
  \/ AddMemoriesMutation(1)
  \/ UpsertVectors(1)
  \/ RememberReturns

SpecConv == Init /\ [][NextConv]_vars

\* ------------------------------------------- concurrent calls and failures
\* An awaited call of addMemories throws (fetchEmbeddingBatch, a
\* chatGPTCompletion, the addMemories mutation, upsertVectors): the call ends
\* there. A Convex mutation is one transaction (internalMutation, line 271):
\* when it throws part-way, none of its inserts is kept.
Throws(c) ==
  /\ call[c].pc \in {"fetching", "scoring", "upserting"}
  /\ call' = [call EXCEPT ![c] = [IdleCall EXCEPT !.pc = "failed"]]
  /\ returned' = NoReturn
  /\ UNCHANGED <<embeddings, memories, memoryAccesses, pinecone, now, journal, remember>>

\* Concurrent ingestion: drafts of both players with a supplied importance.
ConcDrafts == {d \in Drafts : d.importance = Some(Int2Num(9))}

NextConc ==
  \E c \in Calls :
    \/ \E drafts \in SeqsUpTo(ConcDrafts, MaxBatch) : GetEmbeddingsByText(c, drafts)
    \/ FetchEmbeddingBatch(c)
    \/ AddMemoriesMutation(c)
    \/ UpsertVectors(c)
    \/ Throws(c)

SpecConc == Init /\ [][NextConc]_vars

\* ------------------------------------------------------ claims, ingestion
Committed(c) == call[c].pc \in {"upserting", "done"}

\* The first digit character of a response, or NaN when it holds none.
FirstDigit(importanceRaw) == FirstDigitLoop(importanceRaw, 1, NaN)

\* C6: every stored Memory has an importance that is a number in [0, 9].
C6_ImportanceInRange ==
  \A m \in 1..Len(memories) :
    /\ ~isNaN(memories[m].importance)
    /\ NumGe(memories[m].importance, Int2Num(0))
    /\ NumGe(Int2Num(9), memories[m].importance)

\* C7: for a draft with unset importance the assigned importance is the first
\* digit of the response; with no digit in it, the numeric parse of the whole
\* response; and 5 when that fails too.
C7_FirstDigitWins ==
  \A c \in Calls : \A idx \in 1..Len(call[c].importanceRaw) :
    IsSome(call[c].importanceRaw[idx]) =>
      LET raw == Val(call[c].importanceRaw[idx])
          expected == IF ~isNaN(FirstDigit(raw)) THEN FirstDigit(raw)
                      ELSE IF ~isNaN(parseFloat(raw)) THEN parseFloat(raw)
                      ELSE Int2Num(5)
      IN call[c].importance[idx] = Some(expected)

\* C8: a call whose embedding provider answered with a number of vectors
\* different from the number of texts requested commits nothing: it creates
\* no Embedding row, no Memory row and no index entry.
C8_CountMismatchFails ==
  \A c \in Calls :
    (call[c].cacheMisses # <<>> /\ call[c].pc \notin {"idle", "fetching"}
       /\ call[c].answered # Len(call[c].cacheMisses))
    => (~Committed(c) /\ call[c].embeddingIds = <<>>)

\* C9: within one addMemories call no description is sent to the embedding
\* provider more than once.
C9_EachTextSentOnce ==
  \A c \in Calls : \A i, j \in 1..Len(call[c].cacheMisses) :
    call[c].cacheMisses[i] = call[c].cacheMisses[j] => i = j

\* C10: when every draft of a call supplies an importance (0 included) the
\* call makes no language-model completion, and each memory it stores has the
\* importance its draft supplied.
AllSupplied(c) ==
  call[c].drafts # <<>> /\ \A i \in 1..Len(call[c].drafts) : IsSome(call[c].drafts[i].importance)

C10_SuppliedImportanceKept ==
  \A c \in Calls :
    AllSupplied(c) =>
      /\ call[c].completions = 0
      /\ Committed(c) =>
           \A i \in 1..Len(call[c].drafts) :
             \E m \in 1..Len(memories) :
               /\ memories[m].embeddingId = call[c].embeddingIds[i]
               /\ memories[m].description = call[c].drafts[i].description
               /\ memories[m].importance = Val(call[c].drafts[i].importance)

C10_Witness ==
  \E c \in Calls :
    /\ AllSupplied(c)
    /\ call[c].pc = "upserting"
    /\ Len(call[c].drafts) = 2
    /\ call[c].drafts[1].importance = Some(Int2Num(0))
    /\ call[c].drafts[2].importance = Some(Int2Num(9))

\* ------------------------------------------------------ claims, retrieval
\* The last step was an accessMemories mutation that returned.
Accessed == returned.op = "accessMemories" /\ ~returned.threw

Candidates == 1..Len(returned.candidates)

\* The rows the mutation appended, and those it found.
AppendedRows == SubSeq(memoryAccesses, returned.rowsBefore + 1, Len(memoryAccesses))
RowsBefore(memoryId) ==
  {a \in 1..returned.rowsBefore : memoryAccesses[a].memoryId = memoryId}

\* C1: accessMemories returns at most count memories, appends exactly one
\* MemoryAccess row (with the current timestamp) for each memory it returns,
\* and appends no row for a candidate it does not return.
C1_AtMostCountOneRowEach ==
  Accessed =>
    /\ Len(returned.result) <= returned.count
    /\ Len(AppendedRows) = Len(returned.result)
    /\ \A i \in 1..Len(returned.result) :
         /\ returned.result[i].memory \in Range(returned.relatedMemories)
         /\ Cardinality({a \in 1..Len(AppendedRows) :
                           AppendedRows[a].memoryId = returned.result[i].memory}) = 1
    /\ \A a \in 1..Len(AppendedRows) :
         /\ AppendedRows[a].creationTime = returned.ts
         /\ \E i \in 1..Len(returned.result) :
              returned.result[i].memory = AppendedRows[a].memoryId

C1_Witness ==
  /\ Accessed
  /\ Len(returned.candidates) = 3
  /\ returned.count = 2
  /\ Len(returned.result) = 2
  /\ Len(AppendedRows) = 2

\* The position of a returned memory among the candidates.
CandidateOf(memoryId) == CHOOSE i \in Candidates : returned.relatedMemories[i] = memoryId

\* C2: the returned list is ordered by non-increasing overallScore, and
\* results with equal overallScore keep the order of the vector query.
C2_SortedStable ==
  Accessed =>
    \A i \in 1..(Len(returned.result) - 1) :
      LET a == returned.result[i]
          b == returned.result[i + 1]
      IN /\ NumGe(a.overallScore, b.overallScore)
         /\ a.overallScore = b.overallScore =>
              CandidateOf(a.memory) < CandidateOf(b.memory)

\* The raw signals of candidate i.
RawSignals(i) ==
  [relevance |-> returned.candidates[i].score,
   importance |-> memories[returned.relatedMemories[i]].importance,
   recency |-> returned.recencyScore[i]]

OverallOf(i) ==
  NumAdd(NumAdd(returned.normalized[i].relevance, returned.normalized[i].importance),
         returned.normalized[i].recency)

\* C3: when all candidates share one value for a signal (a single candidate
\* included), that signal's normalized contribution is 0 for every candidate
\* and every overallScore is a number, not NaN.
C3_TieNormalizesToZero ==
  Accessed =>
    \A signal \in {"relevance", "importance", "recency"} :
      (\A i, j \in Candidates : RawSignals(i)[signal] = RawSignals(j)[signal]) =>
        \A i \in Candidates :
          /\ returned.normalized[i][signal] = Int2Num(0)
          /\ ~isNaN(OverallOf(i))

\* Whole hours from the newest access of candidate i, found by the call, to it.
HoursSinceAccess(i) ==
  LET rows == RowsBefore(returned.relatedMemories[i])
      newest == CHOOSE a \in rows : \A o \in rows : o <= a
  IN (returned.ts - memoryAccesses[newest].creationTime) \div TicksPerHour

HadAccess(i) == RowsBefore(returned.relatedMemories[i]) # {}

\* C4: the raw recency signal strictly decreases in the whole hours elapsed
\* since the candidate's most recent MemoryAccess.
C4_RecencyDecreases ==
  Accessed =>
    \A i, j \in Candidates :
      (HadAccess(i) /\ HadAccess(j) /\ HoursSinceAccess(i) < HoursSinceAccess(j)) =>
        NumLt(returned.recencyScore[j], returned.recencyScore[i])

\* C5: of two candidates without any MemoryAccess row the one created earlier
\* has the lower recency signal; candidates with rows whose most recent rows
\* are equally old have equal recency signals.
C5_RecencyFromCreation ==
  Accessed =>
    \A i, j \in Candidates :
      /\ (~HadAccess(i) /\ ~HadAccess(j)
            /\ memories[returned.relatedMemories[i]].creationTime
                 < memories[returned.relatedMemories[j]].creationTime) =>
           NumLt(returned.recencyScore[i], returned.recencyScore[j])
      /\ (HadAccess(i) /\ HadAccess(j)
            /\ HoursSinceAccess(i) = HoursSinceAccess(j)) =>
           returned.recencyScore[i] = returned.recencyScore[j]

\* ------------------------------------------ claims, concurrent ingestion
ReferencedBy(embeddingId) ==
  {m \in 1..Len(memories) : memories[m].embeddingId = embeddingId}

\* C11: in every state of the store, also after a call has failed and while
\* other calls are in flight, each memory references an embedding that
\* exists and each embedding is referenced by exactly one memory.
C11_PairsConsistent ==
  /\ \A m \in 1..Len(memories) : memories[m].embeddingId \in 1..Len(embeddings)
  /\ \A e \in 1..Len(embeddings) : Cardinality(ReferencedBy(e)) = 1

\* A batch of two is committed while the other call has failed.
C11_Witness ==
  /\ \E c \in Calls : call[c].pc = "upserting" /\ Len(call[c].drafts) = 2
  /\ \E c \in Calls : call[c].pc = "failed"
  /\ Len(memories) = 3

\* C12: every id in the vector index is the id of an embedding whose memory
\* is committed, and its vector and playerId are those of that embedding's
\* own draft.
C12_IndexOnlyCommitted ==
  \A v \in pinecone :
    /\ v.id \in 1..Len(embeddings)
    /\ v.values = embeddings[v.id].embedding
    /\ v.values = VecOf(embeddings[v.id].text)
    /\ v.playerId = embeddings[v.id].playerId
    /\ \E m \in ReferencedBy(v.id) :
         /\ memories[m].playerId = v.playerId
         /\ memories[m].description = embeddings[v.id].text

\* The index holds vectors of both players and both texts, one call has
\* failed and the other has committed rows it has not upserted yet.
C12_Witness ==
  /\ {v.playerId : v \in pinecone} = Players
  /\ {v.values : v \in pinecone} = {VecOf(t) : t \in Texts}
  /\ \E c \in Calls : call[c].pc = "failed"
  /\ \E c \in Calls : call[c].pc = "upserting"

\* C14: whatever the interleaving, a cache hit for a text is a vector the
\* provider computed for that text, and no step changes or removes a row of
\* 'embeddings' or 'memories'.
C14_CacheHitsOfOwnText ==
  /\ [](/\ \A i \in 1..Len(embeddings) :
             embeddings[i].embedding = VecOf(embeddings[i].text)
        /\ \A c \in Calls : \A i \in 1..Len(call[c].cachedEmbeddings) :
             IsSome(call[c].cachedEmbeddings[i]) =>
               call[c].cachedEmbeddings[i] = Some(VecOf(call[c].drafts[i].description)))
  /\ [][/\ Len(embeddings') >= Len(embeddings)
        /\ SubSeq(embeddings', 1, Len(embeddings)) = embeddings
        /\ Len(memories') >= Len(memories)
        /\ SubSeq(memories', 1, Len(memories)) = memories]_vars

\* Two calls in flight both missed text "a" and each inserted a row for it.
C14_Witness ==
  /\ \A c \in Calls : call[c].pc = "upserting" /\ "a" \in Range(call[c].cacheMisses)
  /\ Cardinality({i \in 1..Len(embeddings) : embeddings[i].text = "a"}) >= 2

\* ------------------------------------------- claims, alignment of a batch
\* The provider answered with one vector per cache miss.
AnsweredInFull(c) == call[c].answered = Len(call[c].cacheMisses)

\* C13: when the provider returns one vector per requested text in request
\* order, then for every pattern of cache hits and misses each draft is
\* stored with the vector of its own description (the cached one on a hit)
\* and with its own importance.
C13_OwnVectorAndImportance ==
  \A c \in Calls :
    (call[c].pc = "upserting" /\ AnsweredInFull(c)) =>
      \A i \in 1..Len(call[c].drafts) :
        LET draft == call[c].drafts[i]
            id == call[c].embeddingIds[i]
            row == embeddings[id]
            mem == CHOOSE m \in ReferencedBy(id) : TRUE
        IN /\ row.text = draft.description
           /\ row.embedding = VecOf(draft.description)
           /\ IsSome(call[c].cachedEmbeddings[i]) =>
                row.embedding = Val(call[c].cachedEmbeddings[i])
           /\ row.playerId = draft.playerId
           /\ memories[mem].description = draft.description
           /\ memories[mem].importance = Val(call[c].importance[i])
           /\ IsSome(draft.importance) => memories[mem].importance = Val(draft.importance)

\* A committed batch of two different texts: the first missed the cache and
\* has its importance from the language model, the second hit the cache and
\* has a supplied importance.
C13_Witness ==
  /\ call[1].pc = "upserting" /\ AnsweredInFull(1)
  /\ Len(call[1].drafts) = 2
  /\ call[1].drafts[1].description # call[1].drafts[2].description
  /\ call[1].cachedEmbeddings[1] = None
  /\ IsSome(call[1].cachedEmbeddings[2])
  /\ call[1].drafts[1].importance = None
  /\ IsSome(call[1].drafts[2].importance)

\* ---------------------------------------------------------- claims, search
Searched == returned.op = "search" /\ ~returned.threw

\* C15: a step of search leaves the rows of memoryAccesses and of every other
\* table, and the vector index, as they were; so the newest access of every
\* memory, from which accessMemories computes recency, is the same after it.
C15_SearchWritesNothing ==
  [][returned'.op = "search" =>
       /\ UNCHANGED <<embeddings, memories, memoryAccesses, pinecone>>
       /\ \A m \in 1..Len(memories) : LatestAccess(m)' = LatestAccess(m)]_vars

\* A search that found two memories, one of which has been accessed before.
C15_Witness ==
  /\ Searched
  /\ Len(returned.result) = 2
  /\ \E i \in 1..2 : IsSome(LatestAccess(returned.result[i].memory))
  /\ \E i \in 1..2 : ~IsSome(LatestAccess(returned.result[i].memory))

\* C19: search returns one pair per candidate of the index, in the index's
\* order: the memory committed with that candidate's embedding for this
\* player, and the index's score of that candidate.
C19_SearchRoundTrip ==
  Searched =>
    /\ Len(returned.result) = Len(returned.candidates)
    /\ \A idx \in 1..Len(returned.candidates) :
         LET mem == memories[returned.result[idx].memory]
         IN /\ mem.embeddingId = returned.candidates[idx]._id
            /\ mem.playerId = returned.playerId
            /\ mem.description = embeddings[mem.embeddingId].text
            /\ returned.result[idx].score = returned.candidates[idx].score

\* A search of p1 over two of its memories with different scores, while p2
\* has a memory as well and the ingesting call has completed.
C19_Witness ==
  /\ Searched /\ returned.playerId = "p1"
  /\ Len(returned.result) = 2
  /\ returned.result[1].score # returned.result[2].score
  /\ \E m \in 1..Len(memories) : memories[m].playerId = "p2"
  /\ call[1].pc = "done"

\* The embeddings for which the player has a memory.
EmbeddingsOf(playerId) ==
  {memories[m].embeddingId :
     m \in {x \in 1..Len(memories) : memories[x].playerId = playerId}}

OrphanCandidate ==
  /\ returned.op = "accessMemories"
  /\ \E i \in 1..Len(returned.candidates) :
       returned.candidates[i]._id \notin EmbeddingsOf(returned.playerId)

\* C18: when a candidate of the index has no memory of that player,
\* accessMemories throws and no memoryAccesses row is appended, neither for
\* that candidate nor for the others.
C18_OrphanCandidateFails ==
  OrphanCandidate =>
    /\ returned.threw
    /\ returned.result = <<>>
    /\ Len(memoryAccesses) = returned.rowsBefore

\* accessMemories threw on two candidates, one of them with a memory.
C18_Witness ==
  /\ OrphanCandidate /\ returned.threw
  /\ Len(returned.candidates) = 2
  /\ \E i \in 1..2 : returned.candidates[i]._id \in EmbeddingsOf(returned.playerId)

\* ------------------------------------------- claims, rememberConversation
\* The query of the call has run and the call has not committed a memory
\* since: 'memories' is as the query saw it.
QueryJustRan == remember.pc \in {"threw", "summarizing"}

\* The call was given a lastSpokeTs earlier than the creation of the player's
\* most recent conversation memory.
SpokeEarlier ==
  /\ remember.pc # "idle"
  /\ IsSome(remember.lastSpokeTs)
  /\ IsSome(remember.lastConversationMemory)
  /\ Val(remember.lastSpokeTs) <
       memories[Val(remember.lastConversationMemory)].creationTime

\* C16: a call whose lastSpokeTs, 0 included, is earlier than the creation
\* time of the player's most recent conversation memory does not go on to
\* summarize or to add a memory, and what it returns is false.
C16_SpokeEarlierReturnsFalse ==
  SpokeEarlier =>
    /\ remember.pc \notin {"summarizing", "adding", "failed"}
    /\ remember.pc = "returned" => ~remember.result

\* The creation time of the player's newest memory of this conversation, 0
\* if there is none.
BoundaryTs(playerId, conversationId) ==
  LET own == Newest({m \in ConversationMemoriesOf(playerId) :
                       memories[m].data.conversationId = conversationId})
  IN IF IsSome(own) THEN memories[Val(own)].creationTime ELSE 0

\* The entries the query could see that are dialogue of the conversation,
\* sent by or to the player, and newer than the boundary.
Qualifying(playerId, conversationId, seen) ==
  {j \in 1..seen :
     /\ journal[j].data.type = "talking"
     /\ journal[j].data.conversationId = conversationId
     /\ journal[j].playerId = playerId \/ playerId \in journal[j].data.audience
     /\ journal[j].creationTime > BoundaryTs(playerId, conversationId)}

QualifyingNow ==
  Qualifying(remember.playerId, remember.conversationId, remember.seen)

\* C17: when no dialogue message qualifies, the conversation having no
\* talking message at all included, the query does not throw and the call
\* does not go on to summarize: it returns false.
C17_NothingQualifiesReturnsFalse ==
  (QueryJustRan /\ QualifyingNow = {}) => FALSE

\* C20: the transcripts of two conversation memories of the player share no
\* message; and a call for a conversation the player has a memory of, with
\* no qualifying message newer than that memory, returns false.
C20_EachMessageSummarizedOnce ==
  /\ \A m1, m2 \in ConversationMemoriesOf("p1") :
       m1 # m2 =>
         Range(memories[m1].description) \cap Range(memories[m2].description) = {}
  /\ (/\ QueryJustRan
      /\ BoundaryTs(remember.playerId, remember.conversationId) > 0)
       => QualifyingNow # {}

\* p1 has a memory of c1 and a newer one of c2; a further call for c1, with
\* no lastSpokeTs, saw a message of c1 with p1 and returned false.
C20_Witness ==
  /\ Len(memories) = 2
  /\ memories[1].data.conversationId = "c1"
  /\ memories[2].data.conversationId = "c2"
  /\ remember.pc = "returned" /\ ~remember.result
  /\ remember.conversationId = "c1" /\ remember.lastSpokeTs = None
  /\ remember.lastConversationMemory = Some(2)
  /\ \E j \in 1..remember.seen :
       /\ journal[j].data.conversationId = "c1"
       /\ journal[j].data.type = "talking"
       /\ journal[j].playerId = "p1"

====
